---- MODULE Spec2Model ----
(***************************************************************************)
(* A model of the mage build script of the "You Are Autosave" extension:   *)
(* you_are_autosave/magefiles/{build.go, manifest.go} and the older        *)
(* you_are_autosave/mage.go.                                                *)
(*                                                                         *)
(* One behaviour is one invocation of `mage [target]` in a working         *)
(* directory whose blender_manifest.toml is the variable `file`.  Strings  *)
(* the program formats or cleans are sequences of one-character strings,   *)
(* so that formatting and path cleaning are computed and not assumed.      *)
(***************************************************************************)
EXTENDS Integers, Sequences, FiniteSets, TLC

\* Longest `version` string of a manifest the model enumerates.
MaxVerLen == 4

\* Characters a `version` string is drawn from: a digit, the dot and the
\* path separator (the version is not validated, manifest.go:44).
VerChars == {"1", ".", "/"}

VARIABLES
    file,      \* blender_manifest.toml in the working directory
    arg,       \* the target named on the command line, "" when none
    target,    \* the target mage runs
    pc,        \* position of the (single) thread of control
    depIdx,    \* index in SerialDeps of the dependency being run
    manifest,  \* result of the last successful loadManifest
    zipPath,   \* Build's local zipPath
    reads,     \* number of os.ReadFile calls on the manifest
    mkdirs,    \* os.MkdirAll calls so far: <<[path, ok]>>
    stdout,    \* what the program itself wrote to standard output, per Printf
    spawned,   \* argument vectors of the sh.RunV calls so far
    running,   \* number of external processes started and not yet exited
    exits,     \* exit codes of the external processes, in order of exit
    status,    \* "none" while running, then "success", "failure" or "aborted"
    panicMsg   \* message of the panic that aborted the run, "" when none

vars == <<file, arg, target, pc, depIdx, manifest, zipPath, reads, mkdirs,
          stdout, spawned, running, exits, status, panicMsg>>

----------------------------------------------------------------------------
(* Strings as sequences of characters.                                     *)

RECURSIVE StrOfLen(_)
StrOfLen(n) ==
    IF n = 0 THEN {<<>>}
    ELSE {Append(s, c) : s \in StrOfLen(n - 1), c \in VerChars}

VersionStrings == UNION {StrOfLen(n) : n \in 0..MaxVerLen}

\* os.PathSeparator of the platform the script is run on (a Unix-like one).
Separator == "/"

\* The literals of the source.
DistDir == <<"d", "i", "s", "t">>
ZipNamePrefix ==
    <<"y", "o", "u", "-", "a", "r", "e", "-",
      "a", "u", "t", "o", "s", "a", "v", "e", "-", "v">>
ZipNameSuffix == <<".", "z", "i", "p">>
NameLabel == <<"N", "a", "m", "e", " ", " ", " ", ":", " ">>
VersionLabel == <<"V", "e", "r", "s", "i", "o", "n", ":", " ">>
CreatingLabel == <<"C", "r", "e", "a", "t", "i", "n", "g", " ">>
Newline == <<"\n">>

----------------------------------------------------------------------------
(* path/filepath: Clean, Join and Dir, as the Go library computes them on  *)
(* a platform whose separator is "/".                                      *)

\* The "out.w--; for out.w > dotdot && out.index(out.w) != Separator" loop
\* of Clean: w is the buffer length after the first decrement, out[w + 1] the
\* character just dropped.  The result is the length that drops the last
\* path element together with the separator before it.
RECURSIVE DropLastElem(_, _, _)
DropLastElem(out, w, dotdot) ==
    IF w > dotdot /\ out[w + 1] # Separator
    THEN DropLastElem(out, w - 1, dotdot)
    ELSE w

\* Copy one path element: the characters of path from r up to a separator.
RECURSIVE ElemEnd(_, _)
ElemEnd(path, r) ==
    IF r <= Len(path) /\ path[r] # Separator THEN ElemEnd(path, r + 1) ELSE r

\* The loop of filepath.Clean; r is 1-based, out is the buffer written so far.
RECURSIVE CleanLoop(_, _, _, _, _)
CleanLoop(path, r, out, dotdot, rooted) ==
    LET n == Len(path) IN
    IF r > n THEN out
    ELSE IF path[r] = Separator
    THEN CleanLoop(path, r + 1, out, dotdot, rooted)
    ELSE IF path[r] = "." /\ (r = n \/ path[r + 1] = Separator)
    THEN CleanLoop(path, r + 1, out, dotdot, rooted)
    ELSE IF path[r] = "." /\ path[r + 1] = "."
            /\ (r + 1 = n \/ path[r + 2] = Separator)
    THEN IF Len(out) > dotdot
         THEN CleanLoop(path, r + 2,
                        SubSeq(out, 1, DropLastElem(out, Len(out) - 1, dotdot)),
                        dotdot, rooted)
         ELSE IF ~rooted
         THEN LET o1 == IF Len(out) > 0 THEN Append(out, Separator) ELSE out
                  o2 == o1 \o <<".", ".">>
              IN  CleanLoop(path, r + 2, o2, Len(o2), rooted)
         ELSE CleanLoop(path, r + 2, out, dotdot, rooted)
    ELSE LET o1 == IF (rooted /\ Len(out) # 1) \/ (~rooted /\ Len(out) # 0)
                   THEN Append(out, Separator) ELSE out
             e  == ElemEnd(path, r)
         IN  CleanLoop(path, e, o1 \o SubSeq(path, r, e - 1), dotdot, rooted)

Clean(path) ==
    IF path = <<>> THEN <<".">>
    ELSE LET rooted == path[1] = Separator
             out == IF rooted
                    THEN CleanLoop(path, 2, <<Separator>>, 1, TRUE)
                    ELSE CleanLoop(path, 1, <<>>, 0, FALSE)
         IN  IF out = <<>> THEN <<".">> ELSE out

\* Index of the last separator of path at or before i, 0 when there is none.
RECURSIVE LastSep(_, _)
LastSep(path, i) ==
    IF i = 0 THEN 0
    ELSE IF path[i] = Separator THEN i ELSE LastSep(path, i - 1)

\* filepath.Dir: all but the last element, cleaned.
Dir(path) == Clean(SubSeq(path, 1, LastSep(path, Len(path))))

----------------------------------------------------------------------------
(* blender_manifest.toml and its decoding by toml.Unmarshal.               *)

\* A top-level key of the document: absent, or present with a TOML type.
Absent == [t |-> "absent", s |-> <<>>, n |-> 0]
StrVal(s) == [t |-> "string", s |-> s, n |-> 0]
IntVal(n) == [t |-> "integer", s |-> <<>>, n |-> n]

\* The top-level keys of a manifest; any other key of the file matches no
\* field and is ignored.
DocKeys == {"schema_version", "version", "name"}

SchemaValues == {Absent, IntVal(1), StrVal(<<"1", ".", "0">>)}
VersionValues == {StrVal(v) : v \in VersionStrings} \cup {Absent, IntVal(2)}
NameValues == {Absent, StrVal(<<"Y", "A">>), IntVal(3)}

Docs ==
    {[k \in DocKeys |->
        CASE k = "schema_version" -> sv
          [] k = "version"        -> v
          [] k = "name"           -> nm] :
     sv \in SchemaValues, v \in VersionValues, nm \in NameValues}

EmptyDoc == [k \in DocKeys |-> Absent]

\* The file: missing or unreadable, readable but not TOML, or a document.
Files ==
    {[readable |-> FALSE, wellFormed |-> FALSE, keys |-> EmptyDoc],
     [readable |-> TRUE, wellFormed |-> FALSE, keys |-> EmptyDoc]}
    \cup {[readable |-> TRUE, wellFormed |-> TRUE, keys |-> d] : d \in Docs}

\* The struct types the document is decoded into.  Neither has struct tags.
BlenderManifest ==
    <<[name |-> "SchemaVersion", kind |-> "integer"],
      [name |-> "Version", kind |-> "string"],
      [name |-> "Name", kind |-> "string"]>>

BlenderManifestOfMage ==
    <<[name |-> "SchemaVersion", kind |-> "integer"],
      [name |-> "Version", kind |-> "string"]>>

\* strings.ToLower on the names that occur.
ToLower(s) ==
    CASE s = "SchemaVersion" -> "schemaversion"
      [] s = "Version" -> "version"
      [] s = "Name" -> "name"
      [] OTHER -> s

\* Whether toml.Unmarshal stores document key k in struct field f: an
\* untagged field is found under its Go name or, failing that, under the
\* lower-cased key compared with the lower-cased name.
KeyMatchesField(k, f) ==
    \/ k = f.name
    \/ k = ToLower(f.name)
    \/ ToLower(k) = f.name
    \/ ToLower(k) = ToLower(f.name)

ZeroValue(kind) == IF kind = "integer" THEN 0 ELSE <<>>
GoValue(v) == IF v.t = "integer" THEN v.n ELSE v.s

\* Strict decoding: a field whose key is absent is an error.
Unmarshal_strict(doc, fields) ==
    LET Present(f) == {k \in DOMAIN doc : doc[k].t # "absent" /\ KeyMatchesField(k, f)}
        names == {fields[i].name : i \in DOMAIN fields}
        Field(nm) == CHOOSE f \in {fields[i] : i \in DOMAIN fields} : f.name = nm
    IN  [err |-> \E i \in DOMAIN fields :
                    \/ Present(fields[i]) = {}
                    \/ \E k \in Present(fields[i]) : doc[k].t # fields[i].kind,
         value |-> [nm \in names |->
                      IF Present(Field(nm)) = {} THEN ZeroValue(Field(nm).kind)
                      ELSE GoValue(doc[CHOOSE k \in Present(Field(nm)) : TRUE])]]

\* toml.Unmarshal of a well-formed document: a key that matches no field is
\* ignored, a field no key matches keeps its zero value, and a value of
\* another type than its field's is an error.
Unmarshal(doc, fields) ==
    LET Present(f) == {k \in DOMAIN doc : doc[k].t # "absent" /\ KeyMatchesField(k, f)}
        names == {fields[i].name : i \in DOMAIN fields}
        Field(nm) == CHOOSE f \in {fields[i] : i \in DOMAIN fields} : f.name = nm
    IN  [err |-> \E i \in DOMAIN fields :
                    \E k \in Present(fields[i]) : doc[k].t # fields[i].kind,
         value |-> [nm \in names |->
                      IF Present(Field(nm)) = {} THEN ZeroValue(Field(nm).kind)
                      ELSE GoValue(doc[CHOOSE k \in Present(Field(nm)) : TRUE])]]

ReadPanic == "cannot read blender manifest"
ParsePanic == "cannot parse blender manifest"

\* loadManifest (and the same lines inlined in mage.go's Version): the decoded
\* struct, or the panic it raises.
loadManifest(f, fields) ==
    IF ~f.readable
    THEN [ok |-> FALSE, msg |-> ReadPanic, value |-> <<>>]
    ELSE IF ~f.wellFormed \/ Unmarshal(f.keys, fields).err
    THEN [ok |-> FALSE, msg |-> ParsePanic, value |-> <<>>]
    ELSE [ok |-> TRUE, msg |-> "", value |-> Unmarshal(f.keys, fields).value]

\* String concatenation in place of filepath.Join.
Join_concat(a, b) == a \o <<Separator>> \o b

\* filepath.Join(a, b) with a non-empty: Clean(a + "/" + b).
Join(a, b) == Clean(a \o <<Separator>> \o b)

\* buildZipPath, given the manifest it loaded.
buildZipPath(m) ==
    LET zipName == ZipNamePrefix \o m.Version \o ZipNameSuffix
    IN  Join(DistDir, zipName)

----------------------------------------------------------------------------
(* The targets.                                                            *)

\* The targets of magefiles/ and, from mage.go, Version.
Targets == {"Info", "Validate", "Build", "ValidateAndBuild", "Version"}

\* The command line: one target, or none ("").
Args == Targets \cup {""}

\* var Default = ValidateAndBuild
Default == "ValidateAndBuild"

\* Build before Validate.
SerialDeps_buildFirst == <<"Build", "Validate">>

\* The dependencies ValidateAndBuild hands to mg.SerialDeps, in order.
SerialDeps == <<"Validate", "Build">>

\* Validate's arguments with the wrong subcommand.
ValidateArgv_build == <<"blender", "--command", "extension", "build">>

\* The argument vector of Validate's sh.RunV call.
ValidateArgv == <<"blender", "--command", "extension", "validate">>

\* The argument vector of Build's sh.RunV call.
BuildArgv(path) ==
    <<"blender", "--command", "extension", "build", "--output-filepath", path>>

Init ==
    /\ file \in Files
    /\ arg \in Args
    /\ target = ""
    /\ pc = "start"
    /\ depIdx = 0
    /\ manifest = <<>>
    /\ zipPath = <<>>
    /\ reads = 0
    /\ mkdirs = <<>>
    /\ stdout = <<>>
    /\ spawned = <<>>
    /\ running = 0
    /\ exits = <<>>
    /\ status = "none"
    /\ panicMsg = ""

\* A panic ends the invocation: inside mg.SerialDeps it is recovered and
\* raised again as the run's fatal error, elsewhere mage's main reports it.
Panic(msg) ==
    /\ status' = "aborted"
    /\ panicMsg' = msg
    /\ pc' = "done"
    /\ UNCHANGED depIdx

\* Every dependency is run, and the last one's error is the result.
Return_runAll(err) ==
    /\ UNCHANGED panicMsg
    /\ IF target = "ValidateAndBuild" /\ depIdx < Len(SerialDeps)
       THEN /\ depIdx' = depIdx + 1
            /\ pc' = SerialDeps[depIdx + 1]
            /\ UNCHANGED status
       ELSE /\ status' = IF err THEN "failure" ELSE "success"
            /\ pc' = "done"
            /\ UNCHANGED depIdx

\* A target function (Validate, Build) returns err (TRUE: a non-nil error).
\* As a target of its own its error is the invocation's result.  Inside
\* mg.SerialDeps(Validate, Build) an error stops the sequence and fails the
\* invocation, and success moves on to the next dependency.
Return(err) ==
    /\ UNCHANGED panicMsg
    /\ IF target = "ValidateAndBuild" /\ ~err /\ depIdx < Len(SerialDeps)
       THEN /\ depIdx' = depIdx + 1
            /\ pc' = SerialDeps[depIdx + 1]
            /\ UNCHANGED status
       ELSE /\ status' = IF err THEN "failure" ELSE "success"
            /\ pc' = "done"
            /\ UNCHANGED depIdx

\* The process is started and not waited for.
RunV_noWait(argv, waitPc) ==
    /\ spawned' = Append(spawned, argv)
    /\ running' = running + 1
    /\ Return(FALSE)

\* sh.RunV(argv): start the external process, then block until it exits.
RunV(argv, waitPc) ==
    /\ spawned' = Append(spawned, argv)
    /\ running' = running + 1
    /\ pc' = waitPc
    /\ UNCHANGED <<status, depIdx, panicMsg>>

\* mage's main: run the named target, or Default when none is named.
MageMain ==
    /\ pc = "start"
    /\ target' = IF arg = "" THEN Default ELSE arg
    /\ pc' = target'
    /\ UNCHANGED <<file, arg, depIdx, manifest, zipPath, reads, mkdirs,
                   stdout, spawned, running, exits, status, panicMsg>>

\* func ValidateAndBuild: mg.SerialDeps starts with its first dependency.
ValidateAndBuild ==
    /\ pc = "ValidateAndBuild"
    /\ depIdx' = 1
    /\ pc' = SerialDeps[1]
    /\ UNCHANGED <<file, arg, target, manifest, zipPath, reads, mkdirs,
                   stdout, spawned, running, exits, status, panicMsg>>

\* func Validate, up to the start of the external process.
Validate ==
    /\ pc = "Validate"
    /\ RunV(ValidateArgv, "Validate_wait")
    /\ UNCHANGED <<file, arg, target, manifest, zipPath, reads, mkdirs,
                   stdout, exits>>

\* Build: zipPath := buildZipPath(), which loads the manifest or panics.
Build_buildZipPath ==
    /\ pc = "Build"
    /\ reads' = reads + 1
    /\ LET r == loadManifest(file, BlenderManifest) IN
       IF r.ok
       THEN /\ manifest' = r.value
            /\ zipPath' = buildZipPath(r.value)
            /\ pc' = "Build_MkdirAll"
            /\ UNCHANGED <<status, panicMsg, depIdx>>
       ELSE /\ Panic(r.msg)
            /\ UNCHANGED <<manifest, zipPath>>
    /\ UNCHANGED <<file, arg, target, mkdirs, stdout, spawned, running, exits>>

\* Build: os.MkdirAll(filepath.Dir(zipPath)); on an error Build returns nil.
Build_MkdirAll ==
    /\ pc = "Build_MkdirAll"
    /\ \E ok \in BOOLEAN :
         /\ mkdirs' = Append(mkdirs, [path |-> Dir(zipPath), ok |-> ok])
         /\ IF ok
            THEN /\ pc' = "Build_Printf"
                 /\ UNCHANGED <<status, panicMsg, depIdx>>
            ELSE Return(FALSE)
    /\ UNCHANGED <<file, arg, target, manifest, zipPath, reads, stdout,
                   spawned, running, exits>>

\* Build: fmt.Printf("Creating %s\n", zipPath)
Build_Printf ==
    /\ pc = "Build_Printf"
    /\ stdout' = Append(stdout, CreatingLabel \o zipPath \o Newline)
    /\ pc' = "Build_RunV"
    /\ UNCHANGED <<file, arg, target, depIdx, manifest, zipPath, reads,
                   mkdirs, spawned, running, exits, status, panicMsg>>

\* Build: return sh.RunV("blender", ..., "--output-filepath", zipPath),
\* up to the start of the external process.
Build_RunV ==
    /\ pc = "Build_RunV"
    /\ RunV(BuildArgv(zipPath), "Build_wait")
    /\ UNCHANGED <<file, arg, target, manifest, zipPath, reads, mkdirs,
                   stdout, exits>>

\* The external process exits and sh.RunV returns: nil for exit code 0, an
\* error otherwise; the target function returns that value unchanged.
RunV_exit ==
    /\ pc \in {"Validate_wait", "Build_wait"}
    /\ running > 0
    /\ \E code \in {0, 1} :
         /\ exits' = Append(exits, code)
         /\ Return(code # 0)
    /\ running' = running - 1
    /\ UNCHANGED <<file, arg, target, manifest, zipPath, reads, mkdirs,
                   stdout, spawned>>

\* Info: manifest := loadManifest()
Info_loadManifest ==
    /\ pc = "Info"
    /\ reads' = reads + 1
    /\ LET r == loadManifest(file, BlenderManifest) IN
       IF r.ok
       THEN /\ manifest' = r.value
            /\ pc' = "Info_Printf"
            /\ UNCHANGED <<status, panicMsg, depIdx>>
       ELSE /\ Panic(r.msg)
            /\ UNCHANGED manifest
    /\ UNCHANGED <<file, arg, target, zipPath, mkdirs, stdout, spawned,
                   running, exits>>

\* The two lines the other way round.
Info_Printf_swapped ==
    /\ pc = "Info_Printf"
    /\ stdout' = stdout \o <<VersionLabel \o manifest.Version \o Newline,
                             NameLabel \o manifest.Name \o Newline>>
    /\ status' = "success"
    /\ pc' = "done"
    /\ UNCHANGED <<file, arg, target, depIdx, manifest, zipPath, reads,
                   mkdirs, spawned, running, exits, panicMsg>>

\* Info: the two fmt.Printf calls; Info returns nothing, so it succeeds.
Info_Printf ==
    /\ pc = "Info_Printf"
    /\ stdout' = stdout \o <<NameLabel \o manifest.Name \o Newline,
                             VersionLabel \o manifest.Version \o Newline>>
    /\ status' = "success"
    /\ pc' = "done"
    /\ UNCHANGED <<file, arg, target, depIdx, manifest, zipPath, reads,
                   mkdirs, spawned, running, exits, panicMsg>>

\* mage.go: func Version reads and decodes the manifest into its own struct
\* and prints the version on a line.
Version ==
    /\ pc = "Version"
    /\ reads' = reads + 1
    /\ LET r == loadManifest(file, BlenderManifestOfMage) IN
       IF r.ok
       THEN /\ manifest' = r.value
            /\ stdout' = Append(stdout, r.value.Version \o Newline)
            /\ status' = "success"
            /\ pc' = "done"
            /\ UNCHANGED <<panicMsg, depIdx>>
       ELSE /\ Panic(r.msg)
            /\ UNCHANGED <<manifest, stdout>>
    /\ UNCHANGED <<file, arg, target, zipPath, mkdirs, spawned, running,
                   exits>>

Next ==
    \/ MageMain
    \/ ValidateAndBuild
    \/ Validate
    \/ Build_buildZipPath
    \/ Build_MkdirAll
    \/ Build_Printf
    \/ Build_RunV
    \/ RunV_exit
    \/ Info_loadManifest
    \/ Info_Printf
    \/ Version

Spec == Init /\ [][Next]_vars

----------------------------------------------------------------------------
(* Properties.                                                             *)

Done == pc = "done"

IsBuildArgv(argv) ==
    /\ Len(argv) = 6
    /\ SubSeq(argv, 1, 5) =
         <<"blender", "--command", "extension", "build", "--output-filepath">>

BuildSpawned == \E i \in DOMAIN spawned : IsBuildArgv(spawned[i])

\* The manifest's version and name as the file gives them ("" when absent).
FileVersion == file.keys["version"].s
FileName == file.keys["name"].s

\* The strings the claims name, spelled out character by character.
ValidateCommand == <<"blender", "--command", "extension", "validate">>
PathBeforeVersion ==
    <<"d", "i", "s", "t", "/", "y", "o", "u", "-", "a", "r", "e", "-",
      "a", "u", "t", "o", "s", "a", "v", "e", "-", "v">>
PathAfterVersion == <<".", "z", "i", "p">>
NameLineStart == <<"N", "a", "m", "e", " ", " ", " ", ":", " ">>
VersionLineStart == <<"V", "e", "r", "s", "i", "o", "n", ":", " ">>
CreatingLineStart == <<"C", "r", "e", "a", "t", "i", "n", "g", " ">>
LineEnd == <<"\n">>

\* 'dist/you-are-autosave-v' + V + '.zip'
LiteralZipPath(V) == PathBeforeVersion \o V \o PathAfterVersion

\* The manifest can be read and decoded by loadManifest.
Decodable == loadManifest(file, BlenderManifest).ok

\* C1: in a run of ValidateAndBuild (named or as the default target) in which
\* the validate invocation exited with a failing status, the build step is
\* never started: from that exit on there is no manifest read, no directory
\* creation, no progress message and no second external invocation, and the
\* run has ended as a failure.
C1_FailedValidateStopsRun ==
    (target = "ValidateAndBuild" /\ Len(exits) >= 1 /\ exits[1] # 0) =>
        /\ spawned = <<ValidateCommand>>
        /\ exits = <<1>>
        /\ reads = 0
        /\ mkdirs = <<>>
        /\ stdout = <<>>
        /\ ~BuildSpawned
        /\ Done
        /\ status = "failure"

C1_Witness ==
    /\ arg = ""
    /\ target = "ValidateAndBuild"
    /\ spawned = <<ValidateCommand>>
    /\ exits = <<1>>
    /\ Done

\* C2: when creating the output directory fails, Build still prints the
\* progress message and invokes 'extension build' with the computed path,
\* and its outcome is the outcome of that invocation.
C2_MkdirFailureIsIgnored ==
    (Done /\ mkdirs # <<>> /\ ~mkdirs[1].ok) =>
        /\ stdout = <<CreatingLineStart \o zipPath \o LineEnd>>
        /\ spawned # <<>>
        /\ IsBuildArgv(spawned[Len(spawned)])
        /\ spawned[Len(spawned)][6] = zipPath
        /\ Len(exits) = Len(spawned)
        /\ (status = "success") <=> (exits[Len(exits)] = 0)

\* The external-tool steps an operation is defined to perform.
StepsOf(t) ==
    CASE t = "Validate" -> {"validate"}
      [] t = "Build" -> {"build"}
      [] t = "ValidateAndBuild" -> {"validate", "build"}
      [] OTHER -> {}

IsStep(argv, step) ==
    IF step = "validate" THEN argv = ValidateCommand ELSE IsBuildArgv(argv)

\* Every step of the target was invoked and exited with status 0 (the i-th
\* exit is that of the i-th invocation: they never overlap).
AllStepsSucceeded ==
    \A step \in StepsOf(target) :
        \E i \in DOMAIN spawned :
            /\ IsStep(spawned[i], step)
            /\ i \in DOMAIN exits
            /\ exits[i] = 0

\* C3: Validate, Build and ValidateAndBuild end in success exactly when every
\* external-tool step of the operation was invoked and exited successfully.
C3_SuccessIffAllStepsSucceeded ==
    (Done /\ target \in {"Validate", "Build", "ValidateAndBuild"}) =>
        ((status = "success") <=> AllStepsSucceeded)

\* A manifest the claim C4 calls unreadable or undecodable: the file cannot
\* be read, is not well-formed, or a key has a value of another type than
\* expected (a non-numeric schema_version, a non-string version or name).
C4_Undecodable ==
    \/ ~file.readable
    \/ ~file.wellFormed
    \/ file.keys["schema_version"].t = "string"
    \/ file.keys["version"].t = "integer"
    \/ file.keys["name"].t = "integer"

\* C4: once Info or Build has tried to load such a manifest, the operation
\* has aborted and done nothing more: no path, no directory, no output, no
\* external process.
C4_UndecodableManifestAborts ==
    (target \in {"Info", "Build"} /\ reads >= 1 /\ C4_Undecodable) =>
        /\ Done
        /\ status = "aborted"
        /\ zipPath = <<>>
        /\ mkdirs = <<>>
        /\ stdout = <<>>
        /\ spawned = <<>>

\* C5 as stated: the path buildZipPath computes, and Build passes as the
\* --output-filepath argument, is 'dist/you-are-autosave-v' + V + '.zip',
\* whatever the version string V of the manifest.
C5_PathIsLiteral ==
    /\ zipPath # <<>> => zipPath = LiteralZipPath(FileVersion)
    /\ \A i \in DOMAIN spawned :
           IsBuildArgv(spawned[i]) => spawned[i][6] = LiteralZipPath(FileVersion)

\* The positions of the separators in V.
SepsOf(V) == {i \in DOMAIN V : V[i] = "/"}

\* No path element of V that lies between two separators is empty, "." or
\* "..": these are the elements filepath.Join removes or resolves.
NoEmptyOrDotElem(V) ==
    \A i, j \in SepsOf(V) :
        (i < j /\ \A k \in (i + 1)..(j - 1) : V[k] # "/") =>
            SubSeq(V, i + 1, j - 1) \notin {<<>>, <<".">>, <<".", ".">>}

\* C5, amended: the path computed and passed is a function of the manifest's
\* version string V alone, and it is 'dist/you-are-autosave-v' + V + '.zip'
\* exactly when no path element of V between two separators is empty, "."
\* or ".." (so always when V holds no separator).
C5_PathIsLiteralIffNoDotElem ==
    /\ zipPath # <<>> =>
          ((zipPath = LiteralZipPath(FileVersion)) <=> NoEmptyOrDotElem(FileVersion))
    /\ \A i \in DOMAIN spawned :
           IsBuildArgv(spawned[i]) =>
               /\ spawned[i][6] = zipPath
               /\ SepsOf(FileVersion) = {} =>
                      spawned[i][6] = LiteralZipPath(FileVersion)

C5_Witness ==
    /\ BuildSpawned
    /\ ~NoEmptyOrDotElem(FileVersion)
    /\ spawned[Len(spawned)][6] # LiteralZipPath(FileVersion)
    /\ spawned[Len(spawned)][6] = zipPath

\* C6: Validate makes exactly one external invocation, blender --command
\* extension validate, and its result is that invocation's result; it reads
\* no manifest, creates no directory and prints nothing, whatever the
\* manifest file is.
C6_ValidateIsOneInvocation ==
    target = "Validate" =>
        /\ reads = 0
        /\ manifest = <<>>
        /\ mkdirs = <<>>
        /\ stdout = <<>>
        /\ panicMsg = ""
        /\ Len(spawned) <= 1
        /\ spawned # <<>> => spawned[1] = ValidateCommand
        /\ Done =>
              /\ Len(spawned) = 1
              /\ Len(exits) = 1
              /\ running = 0
              /\ status = IF exits[1] = 0 THEN "success" ELSE "failure"

C6_Witness ==
    /\ target = "Validate"
    /\ ~file.readable
    /\ Done
    /\ status = "success"
    /\ spawned = <<ValidateCommand>>

\* C7: for a decodable manifest Info prints exactly the two lines
\* 'Name   : <name>' and 'Version: <version>', in that order, and succeeds;
\* it invokes no external process and creates no directory.
C7_InfoPrintsNameThenVersion ==
    target = "Info" =>
        /\ spawned = <<>>
        /\ mkdirs = <<>>
        /\ (Done /\ Decodable) =>
              /\ status = "success"
              /\ stdout = <<NameLineStart \o FileName \o LineEnd,
                            VersionLineStart \o FileVersion \o LineEnd>>
        /\ ~(Done /\ Decodable) => stdout = <<>>

C7_Witness ==
    /\ target = "Info"
    /\ Done
    /\ FileName # <<>>
    /\ FileVersion # <<>>
    /\ Len(stdout) = 2

\* Every key of the document is absent or has the type the manifest format
\* gives it.
WellTypedOrAbsent ==
    /\ file.readable
    /\ file.wellFormed
    /\ file.keys["schema_version"].t \in {"absent", "integer"}
    /\ file.keys["version"].t \in {"absent", "string"}
    /\ file.keys["name"].t \in {"absent", "string"}

\* C8: decoding a well-formed manifest that lacks keys does not fail; a
\* missing name decodes to "" (Info prints an empty name), a missing version
\* to "" (the build path is 'dist/you-are-autosave-v.zip') and a missing
\* schema_version to 0.
C8_MissingKeysDecodeToZero ==
    (target \in {"Info", "Build"} /\ reads >= 1 /\ WellTypedOrAbsent) =>
        /\ status # "aborted"
        /\ panicMsg = ""
        /\ file.keys["schema_version"].t = "absent" => manifest.SchemaVersion = 0
        /\ file.keys["name"].t = "absent" =>
              /\ manifest.Name = <<>>
              /\ (target = "Info" /\ Done) => stdout[1] = NameLineStart \o LineEnd
        /\ file.keys["version"].t = "absent" =>
              /\ manifest.Version = <<>>
              /\ target = "Build" =>
                    zipPath = LiteralZipPath(<<>>)

C8_Witness ==
    /\ target = "Build"
    /\ file.wellFormed
    /\ file.keys = EmptyDoc
    /\ Len(spawned) = 1
    /\ IsBuildArgv(spawned[1])
    /\ spawned[1][6] = LiteralZipPath(<<>>)

\* C9: in a run of ValidateAndBuild at most one external process runs at a
\* time; validate is started at most once, first, and has exited before the
\* manifest is read; build is started at most once, second.
C9_SequentialNoRetry ==
    target = "ValidateAndBuild" =>
        /\ running <= 1
        /\ Len(exits) + running = Len(spawned)
        /\ Len(spawned) <= 2
        /\ Len(spawned) >= 1 => spawned[1] = ValidateCommand
        /\ Len(spawned) = 2 => IsBuildArgv(spawned[2])
        /\ reads <= 1
        /\ reads = 1 => (Len(exits) >= 1 /\ exits[1] = 0)

C9_Witness ==
    /\ target = "ValidateAndBuild"
    /\ Done
    /\ Len(spawned) = 2
    /\ Len(exits) = 2
    /\ reads = 1

\* C10: in a run of ValidateAndBuild on a manifest that cannot be read or
\* decoded, the run does not end before 'extension validate' has been invoked
\* and has exited; the manifest failure aborts the run only after validate
\* succeeded, and then no directory is created, nothing is printed and
\* 'extension build' is not invoked.
C10_ManifestLoadedAfterValidate ==
    (target = "ValidateAndBuild" /\ ~Decodable) =>
        /\ Done => (spawned = <<ValidateCommand>> /\ Len(exits) = 1 /\ running = 0)
        /\ (status = "aborted") <=> (Done /\ exits = <<0>>)
        /\ (status = "aborted") <=> (reads = 1)
        /\ (status = "aborted") <=> (panicMsg # "")
        /\ mkdirs = <<>>
        /\ stdout = <<>>
        /\ ~BuildSpawned

C10_Witness ==
    /\ target = "ValidateAndBuild"
    /\ ~file.readable
    /\ status = "aborted"
    /\ panicMsg = "cannot read blender manifest"
    /\ spawned = <<ValidateCommand>>
    /\ exits = <<0>>

====
